---- MODULE Spec2Model ----
(***************************************************************************)
(* Model of pypeit/scripts/trace_edges.py: main(args), the driver that     *)
(* resolves its inputs (a PypeIt reduction file or a single trace image)   *)
(* and then traces the slit edges of one detector after the other.         *)
(*                                                                         *)
(* Python values are modelled as follows.                                  *)
(*   - None is the empty tuple, any other optional value v is <<v>>.       *)
(*   - A file-system path is a record [abs, comps]: abs says whether the   *)
(*     path starts at the root, comps is the tuple of its components.      *)
(*   - A master key or a binning string ("1,2") is the tuple of its        *)
(*     characters, each a one-character string.                            *)
(* The collaborators (PypeIt, TraceImage, EdgeTraceSet, TraceSlits, the    *)
(* spectrograph) are outside the script; each call to one of them either   *)
(* returns or raises, and the model takes both outcomes.                   *)
(***************************************************************************)
EXTENDS Integers, Sequences, FiniteSets, TLC

\* ------------------------------------------------------------------ bounds
MaxDet == 3      \* largest detector count of a spectrograph
MaxGroup == 2    \* largest calibration group identifier in a metadata table
MaxRows == 2     \* largest number of rows of a metadata table

\* ------------------------------------------------------- optional values
None == <<>>
Some(v) == <<v>>
Val(o) == o[1]

\* ------------------------------------------------------------- os.path
Path(abs, comps) == [abs |-> abs, comps |-> comps]

\* the current working directory of the process
Cwd == Path(TRUE, <<"home", "user">>)

RECURSIVE NormComps(_, _, _)
\* os.path.normpath on the components: "." is dropped, ".." removes the
\* component before it (at the root of an absolute path it is dropped, at the
\* start of a relative path it is kept)
NormComps(abs, done, rest) ==
    IF rest = <<>> THEN done
    ELSE LET c == Head(rest) IN
         IF c = "." THEN NormComps(abs, done, Tail(rest))
         ELSE IF c = ".."
              THEN IF done # <<>> /\ done[Len(done)] # ".."
                   THEN NormComps(abs, SubSeq(done, 1, Len(done) - 1), Tail(rest))
                   ELSE IF abs THEN NormComps(abs, done, Tail(rest))
                        ELSE NormComps(abs, Append(done, c), Tail(rest))
              ELSE NormComps(abs, Append(done, c), Tail(rest))

\* os.path.join(a, b): an absolute b discards a
Join(a, b) == IF b.abs THEN b ELSE Path(a.abs, a.comps \o b.comps)

\* os.path.abspath(p) = normpath(join(getcwd(), p))
AbsPath(p) == LET j == Join(Cwd, p) IN Path(j.abs, NormComps(j.abs, <<>>, j.comps))

\* os.path.split(p)[0]: everything before the last component
SplitHead(p) ==
    IF p.comps = <<>> THEN p
    ELSE Path(p.abs, SubSeq(p.comps, 1, Len(p.comps) - 1))

\* os.path.isfile(p) against the files that exist (absolute paths)
IsFile(fs, p) == AbsPath(p) \in fs

\* ------------------------------------------------------------- strings
Digits == <<"0", "1", "2", "3", "4", "5", "6", "7", "8", "9">>

RECURSIVE StrNat(_)
\* str(n) for n >= 0
StrNat(n) == IF n < 10 THEN <<Digits[n + 1]>>
             ELSE StrNat(n \div 10) \o <<Digits[(n % 10) + 1]>>

\* str(n) for an int
Str(n) == IF n < 0 THEN <<"-">> \o StrNat(0 - n) ELSE StrNat(n)

RECURSIVE Zeros(_)
Zeros(k) == IF k <= 0 THEN <<>> ELSE <<"0">> \o Zeros(k - 1)

\* s.zfill(width): zeros are inserted after a leading sign
Zfill(s, width) ==
    IF Len(s) >= width THEN s
    ELSE IF s # <<>> /\ s[1] \in {"-", "+"}
         THEN <<s[1]>> \o Zeros(width - Len(s)) \o Tail(s)
         ELSE Zeros(width - Len(s)) \o s

RECURSIVE SplitOn(_, _, _)
\* s.split(sep): cur is the piece being read
SplitOn(s, sep, cur) ==
    IF s = <<>> THEN <<cur>>
    ELSE IF Head(s) = sep THEN <<cur>> \o SplitOn(Tail(s), sep, <<>>)
         ELSE SplitOn(Tail(s), sep, Append(cur, Head(s)))

RECURSIVE JoinWith(_, _)
\* sep.join(parts)
JoinWith(parts, sep) ==
    IF parts = <<>> THEN <<>>
    ELSE IF Len(parts) = 1 THEN parts[1]
         ELSE parts[1] \o <<sep>> \o JoinWith(Tail(parts), sep)

\* parts[:n]
Take(parts, n) == SubSeq(parts, 1, IF Len(parts) < n THEN Len(parts) ELSE n)


RECURSIVE IntOf(_)
\* int(s) for a string of decimal digits
IntOf(s) ==
    IF s = <<>> THEN 0
    ELSE 10 * IntOf(SubSeq(s, 1, Len(s) - 1))
         + (CHOOSE d \in 0..9 : Digits[d + 1] = s[Len(s)])

\* pypeit.core.parse.parse_binning: "a,b" -> (a, b)
parse_binning(binning) ==
    LET parts == SplitOn(binning, ",", <<>>) IN <<IntOf(parts[1]), IntOf(parts[2])>>

\* --------------------------------------------------------- collaborators
\* numpy.unique(column): the distinct values in ascending order
RECURSIVE SortedSeq(_)
SortedSeq(S) ==
    IF S = {} THEN <<>>
    ELSE LET m == CHOOSE x \in S : \A y \in S : x <= y
         IN <<m>> \o SortedSeq(S \ {m})

Unique(column) == SortedSeq({column[i] : i \in 1..Len(column)})

\* x in seq
In(x, seq) == \E i \in 1..Len(seq) : seq[i] = x

\* rdx.fitstbl['calib']
CalibColumn(fitstbl) == [i \in 1..Len(fitstbl) |-> fitstbl[i].calib]

RECURSIVE FindFramesFrom(_, _, _, _)
FindFramesFrom(fitstbl, ftype, calib_ID, i) ==
    IF i > Len(fitstbl) THEN <<>>
    ELSE (IF fitstbl[i].frametype = ftype /\ fitstbl[i].calib = calib_ID
          THEN <<i>> ELSE <<>>) \o FindFramesFrom(fitstbl, ftype, calib_ID, i + 1)

\* rdx.fitstbl.find_frames(ftype, calib_ID=..., index=True): the indices of
\* the rows of that frame type in that calibration group, in table order
find_frames(fitstbl, ftype, calib_ID) == FindFramesFrom(fitstbl, ftype, calib_ID, 1)

\* rdx.fitstbl.master_key(row): setup, calibration bit and detector
master_key_of(fitstbl, row) ==
    <<"A", "_">> \o Str(fitstbl[row].calib) \o <<"_", "0", "1">>

\* rdx.fitstbl.frame_paths(rows)
frame_paths(fitstbl, rows) ==
    [k \in 1..Len(rows) |-> Path(TRUE, <<"raw", "frame" \o ToString(rows[k])>>)]

\* the parameter sets of the calibration steps, each named by its key
CalibrationsPar ==
    [traceframe |-> "traceframe", slitedges |-> "slitedges", slits |-> "slits"]

\* valid_spectrographs()
valid_spectrographs == {"keck_lris_red"}

\* the spectrograph descriptor: its detector count and its detectors
Spectrograph(n) ==
    [ndet |-> n, detector |-> [i \in 1..n |-> [platescale |-> 100 + 35 * i]]]

\* load_spectrograph(name): the descriptor of a valid identifier, None when
\* the identifier is rejected (the call raises); n is the detector count of
\* the instrument
load_spectrograph(name, n) ==
    IF name = None \/ Val(name) \notin valid_spectrographs THEN None
    ELSE Some(Spectrograph(n))

\* seq[i] with Python's indexing (i counts from 0, a negative i counts from
\* the end): the position in 1..Len(seq), or None for an IndexError
PyIndex(seq, i) ==
    IF 0 <= i /\ i < Len(seq) THEN Some(i + 1)
    ELSE IF i < 0 /\ 0 - Len(seq) <= i THEN Some(Len(seq) + i + 1)
         ELSE None

\* ------------------------------------------------------- pieces of main
\* line 72 reading the first row of the column instead of the first of its
\* distinct sorted values
ResolveGroupFirstRow(fitstbl, group) ==
    IF group = None THEN CalibColumn(fitstbl)[1] ELSE Val(group)

\* line 72: the calibration group to use
ResolveGroup(fitstbl, group) ==
    IF group = None THEN Unique(CalibColumn(fitstbl))[1] ELSE Val(group)

\* line 79: the master key of the first trace frame, cut to two components
MasterKeyBase(key) == JoinWith(Take(SplitOn(key, "_", <<>>), 2), "_")

\* lines 65-66 and 95-96: the top-level output directory
ReduxPath(file, redux_path) ==
    AbsPath(IF redux_path = None THEN SplitHead(file) ELSE Val(redux_path))

\* lines 87 and 99-100 ignoring the flag
TraceParSlits(par, use_new) == par.slits

\* lines 87 and 99-100: the slit-tracing parameters
TracePar(par, use_new) == IF use_new THEN par.slitedges ELSE par.slits

\* line 102: the detectors to analyze
Detectors(ndet, detector) ==
    IF detector = None THEN [i \in 1..ndet |-> i] ELSE <<Val(detector)>>

\* line 106 without the zfill
MasterKeyNoPad(master_key_base, det) == master_key_base \o <<"_">> \o Str(det)

\* line 106: the master key of a detector
MasterKey(master_key_base, det) ==
    master_key_base \o <<"_">> \o Zfill(Str(det), 2)


\* ----------------------------------------------------------------- state
VARIABLES
    args,             \* the parsed command line (parser(), lines 10-47)
    fs,               \* the files that exist
    fitstbl,          \* the metadata table the reduction file gives (rdx.fitstbl)
    ndet,             \* the detector count of the spectrograph in use
    pc,               \* the position in main
    spec,             \* the spectrograph, None before it is resolved
    group,            \* the calibration group, None before it is resolved
    master_key_base, binning, files, redux_path, proc_par, trace_par,
    master_dir,
    detectors,        \* the detectors of the loop of line 104
    idx,              \* the position of the loop in detectors
    master_key,       \* the master key of the current detector
    images,           \* the trace images built, in order: [det, files, par]
    scales,           \* the plate scales computed: [det, index, value]
    calls,            \* the tracers constructed: [tracer, par, det, master_key, master_dir]
    runs,             \* the legacy tracer's runs: [det, binning, plate_scale]
    saved,            \* the results persisted: [tracer, det, master_key]
    swallowed,        \* the exceptions line 127 discarded: [det, at]
    error,            \* the exception that left main, None if none did
    ret               \* the value main returned, None before it returns

vars == <<args, fs, fitstbl, ndet, pc, spec, group, master_key_base, binning,
          files, redux_path, proc_par, trace_par, master_dir, detectors, idx,
          master_key, images, scales, calls, runs, saved, swallowed, error,
          ret>>

resolved == <<spec, group, master_key_base, binning, files, redux_path,
              proc_par, trace_par>>
env == <<args, fs, fitstbl, ndet>>
loopvars == <<master_dir, detectors, idx, master_key>>
logs == <<images, scales, calls, runs, saved, swallowed>>

\* ---------------------------------------------------------------- inputs
InputPaths == {Path(FALSE, <<"input">>), Path(TRUE, <<"data", "input">>)}
ReduxPaths == {Path(FALSE, <<"..", "out">>), Path(TRUE, <<"out">>)}
\* the frames of a reduction file share its instrument configuration, and
\* with it the binning
Rows == [calib : 1..MaxGroup, frametype : {"trace", "arc"},
         binning : {<<"1", ",", "2">>}]
Tables == UNION {[1..n -> Rows] : n \in 0..MaxRows}
Opt(S) == {None} \cup {Some(v) : v \in S}

\* the namespace parser() returns: exactly one of pypeit_file and trace_file
\* is given (line 18); the options read only for a trace file are left at
\* their defaults with a reduction file, and the other way round
ArgsSet ==
    {a \in [pypeit_file : Opt(InputPaths), trace_file : Opt(InputPaths),
            group : Opt(1..(MaxGroup + 1)), detector : Opt(0..(MaxDet + 1)),
            spectrograph : Opt({"keck_lris_red", "bogus"}),
            binning : Opt({<<"2", ",", "1">>}),
            redux_path : Opt(ReduxPaths),
            master_dir : {Path(FALSE, <<"Masters">>)},
            use_new : BOOLEAN] :
        /\ (a.pypeit_file = None) # (a.trace_file = None)
        /\ a.pypeit_file # None => a.spectrograph = None /\ a.binning = None
        /\ a.trace_file # None => a.group = None}

Init ==
    /\ args \in ArgsSet
    /\ fs \in {{}, {AbsPath(p) : p \in InputPaths}}
    /\ fitstbl \in (IF args.pypeit_file # None THEN Tables ELSE {<<>>})
    /\ ndet \in 1..MaxDet
    /\ pc = "start"
    /\ spec = None /\ group = None /\ master_key_base = None /\ binning = None
    /\ files = None /\ redux_path = None /\ proc_par = None /\ trace_par = None
    /\ master_dir = None /\ detectors = None /\ idx = 0 /\ master_key = None
    /\ images = <<>> /\ scales = <<>> /\ calls = <<>> /\ runs = <<>>
    /\ saved = <<>> /\ swallowed = <<>>
    /\ error = None /\ ret = None

\* an exception leaves main
Raise(type, at) ==
    /\ pc' = "raised"
    /\ error' = Some([type |-> type, at |-> at])
    /\ UNCHANGED ret

\* --------------------------------------------------------------- actions
\* lines 60-87: input resolution from a reduction file
ResolvePypeitFile ==
    /\ pc = "start"
    /\ args.pypeit_file # None
    /\ LET pypeit_file == AbsPath(Val(args.pypeit_file))
           grp == ResolveGroup(fitstbl, args.group)
           tbl_rows == find_frames(fitstbl, "trace", grp)
       IN  IF ~IsFile(fs, Val(args.pypeit_file))
           THEN Raise("FileNotFoundError", "resolve") /\ UNCHANGED resolved
           ELSE IF args.group = None /\ Unique(CalibColumn(fitstbl)) = <<>>
           THEN \* line 72: [0] of an empty array
                /\ Raise("IndexError", "resolve")
                /\ spec' = Some(Spectrograph(ndet))
                /\ redux_path' = Some(ReduxPath(pypeit_file, args.redux_path))
                /\ UNCHANGED <<group, master_key_base, binning, files, proc_par, trace_par>>
           ELSE IF ~In(grp, Unique(CalibColumn(fitstbl)))
           THEN /\ Raise("ValueError", "resolve")
                /\ spec' = Some(Spectrograph(ndet))
                /\ redux_path' = Some(ReduxPath(pypeit_file, args.redux_path))
                /\ group' = Some(grp)
                /\ UNCHANGED <<master_key_base, binning, files, proc_par, trace_par>>
           ELSE IF tbl_rows = <<>>
           THEN \* line 79: tbl_rows[0] of an empty array
                /\ Raise("IndexError", "resolve")
                /\ spec' = Some(Spectrograph(ndet))
                /\ redux_path' = Some(ReduxPath(pypeit_file, args.redux_path))
                /\ group' = Some(grp)
                /\ UNCHANGED <<master_key_base, binning, files, proc_par, trace_par>>
           ELSE /\ pc' = "resolved"
                /\ spec' = Some(Spectrograph(ndet))
                /\ redux_path' = Some(ReduxPath(pypeit_file, args.redux_path))
                /\ group' = Some(grp)
                /\ master_key_base' = Some(MasterKeyBase(master_key_of(fitstbl, tbl_rows[1])))
                /\ binning' = Some(fitstbl[tbl_rows[1]].binning)
                /\ files' = Some(frame_paths(fitstbl, tbl_rows))
                /\ proc_par' = Some(CalibrationsPar.traceframe)
                /\ trace_par' = Some(TracePar(CalibrationsPar, args.use_new))
                /\ UNCHANGED <<error, ret>>
    /\ UNCHANGED <<env, loopvars, logs>>

\* lines 88-100 without the check of line 92
ResolveTraceFileNoCheck ==
    /\ pc = "start"
    /\ args.pypeit_file = None
    /\ LET file == AbsPath(Val(args.trace_file))
       IN  IF load_spectrograph(args.spectrograph, ndet) = None
           THEN Raise("SpectrographError", "resolve") /\ UNCHANGED resolved
           ELSE /\ pc' = "resolved"
                /\ spec' = load_spectrograph(args.spectrograph, ndet)
                /\ master_key_base' = Some(<<"A", "_", "1">>)
                /\ binning' = Some(IF args.binning = None THEN <<"1", ",", "1">>
                                   ELSE Val(args.binning))
                /\ files' = Some(<<file>>)
                /\ redux_path' = Some(ReduxPath(file, args.redux_path))
                /\ proc_par' = Some(CalibrationsPar.traceframe)
                /\ trace_par' = Some(TracePar(CalibrationsPar, args.use_new))
                /\ UNCHANGED <<group, error, ret>>
    /\ UNCHANGED <<env, loopvars, logs>>

\* lines 88-100 with the check of line 92 moved before line 89
ResolveTraceFileCheckFirst ==
    /\ pc = "start"
    /\ args.pypeit_file = None
    /\ LET file == AbsPath(Val(args.trace_file))
       IN  IF ~IsFile(fs, Val(args.trace_file))
           THEN Raise("FileNotFoundError", "resolve") /\ UNCHANGED resolved
           ELSE IF load_spectrograph(args.spectrograph, ndet) = None
           THEN Raise("SpectrographError", "resolve") /\ UNCHANGED resolved
           ELSE /\ pc' = "resolved"
                /\ spec' = load_spectrograph(args.spectrograph, ndet)
                /\ master_key_base' = Some(<<"A", "_", "1">>)
                /\ binning' = Some(IF args.binning = None THEN <<"1", ",", "1">>
                                   ELSE Val(args.binning))
                /\ files' = Some(<<file>>)
                /\ redux_path' = Some(ReduxPath(file, args.redux_path))
                /\ proc_par' = Some(CalibrationsPar.traceframe)
                /\ trace_par' = Some(TracePar(CalibrationsPar, args.use_new))
                /\ UNCHANGED <<group, error, ret>>
    /\ UNCHANGED <<env, loopvars, logs>>

\* lines 88-100: input resolution from a single trace image
ResolveTraceFile ==
    /\ pc = "start"
    /\ args.pypeit_file = None
    /\ LET file == AbsPath(Val(args.trace_file))
       IN  IF load_spectrograph(args.spectrograph, ndet) = None
           THEN \* line 89: load_spectrograph rejects the identifier
                Raise("SpectrographError", "resolve") /\ UNCHANGED resolved
           ELSE IF ~IsFile(fs, Val(args.trace_file))
           THEN /\ Raise("FileNotFoundError", "resolve")
                /\ spec' = load_spectrograph(args.spectrograph, ndet)
                /\ master_key_base' = Some(<<"A", "_", "1">>)
                /\ binning' = Some(IF args.binning = None THEN <<"1", ",", "1">>
                                   ELSE Val(args.binning))
                /\ UNCHANGED <<group, files, redux_path, proc_par, trace_par>>
           ELSE /\ pc' = "resolved"
                /\ spec' = load_spectrograph(args.spectrograph, ndet)
                /\ master_key_base' = Some(<<"A", "_", "1">>)
                /\ binning' = Some(IF args.binning = None THEN <<"1", ",", "1">>
                                   ELSE Val(args.binning))
                /\ files' = Some(<<file>>)
                /\ redux_path' = Some(ReduxPath(file, args.redux_path))
                /\ proc_par' = Some(CalibrationsPar.traceframe)
                /\ trace_par' = Some(TracePar(CalibrationsPar, args.use_new))
                /\ UNCHANGED <<group, error, ret>>
    /\ UNCHANGED <<env, loopvars, logs>>

\* lines 102-103: the detectors to analyze and the master directory
SelectDetectors ==
    /\ pc = "resolved"
    /\ detectors' = Some(Detectors(Val(spec).ndet, args.detector))
    /\ master_dir' = Some(Join(Val(redux_path), args.master_dir))
    /\ idx' = 1
    /\ pc' = "build"
    /\ UNCHANGED <<env, resolved, master_key, logs, error, ret>>

\* the detector of the current pass of the loop
det == Val(detectors)[idx]

\* lines 104-110: the next pass of the loop starts: the master key, then the
\* trace image, whose construction or build_image() may raise
BuildImage ==
    /\ pc = "build"
    /\ idx <= Len(Val(detectors))
    /\ master_key' = Some(MasterKey(Val(master_key_base), det))
    /\ \/ /\ images' = Append(images, [det |-> det, files |-> Val(files),
                                       par |-> Val(proc_par)])
          /\ pc' = "platescale"
          /\ UNCHANGED <<error, ret>>
       \/ /\ Raise("TraceImageError", "build")
          /\ UNCHANGED images
    /\ UNCHANGED <<env, resolved, master_dir, detectors, idx, scales, calls,
                   runs, saved, swallowed>>

\* line 116: the plate scale of the detector
PlateScale ==
    /\ pc = "platescale"
    /\ LET i == PyIndex(Val(spec).detector, det - 1)
       IN  IF i = None
           THEN Raise("IndexError", "platescale") /\ UNCHANGED scales
           ELSE /\ scales' = Append(scales,
                      [det |-> det, index |-> Val(i),
                       value |-> parse_binning(Val(binning))[2]
                                 * Val(spec).detector[Val(i)].platescale])
                /\ pc' = "trace"
                /\ UNCHANGED <<error, ret>>
    /\ UNCHANGED <<env, resolved, loopvars, images, calls, runs, saved,
                   swallowed>>

\* the tracer call of the current pass
Call(tracer) ==
    [tracer |-> tracer, par |-> Val(trace_par), det |-> det,
     master_key |-> Val(master_key), master_dir |-> Val(master_dir)]

\* the result the current pass persists
Saved(tracer) == [tracer |-> tracer, det |-> det, master_key |-> Val(master_key)]

\* lines 119-128 with the first exception ending the loop (a break in the
\* except clause)
EdgeTraceBreak ==
    /\ pc = "trace"
    /\ args.use_new
    /\ calls' = Append(calls, Call("EdgeTraceSet"))
    /\ \/ /\ saved' = Append(saved, Saved("EdgeTraceSet"))
          /\ idx' = idx + 1
          /\ UNCHANGED swallowed
       \/ /\ swallowed' = Append(swallowed, [det |-> det, at |-> "construct"])
          /\ idx' = Len(Val(detectors)) + 1
          /\ UNCHANGED saved
       \/ /\ swallowed' = Append(swallowed, [det |-> det, at |-> "save"])
          /\ idx' = Len(Val(detectors)) + 1
          /\ UNCHANGED saved
    /\ pc' = "build"
    /\ UNCHANGED <<env, resolved, master_dir, detectors, master_key, images,
                   scales, runs, error, ret>>

\* lines 119-128 without the try
EdgeTraceNoCatch ==
    /\ pc = "trace"
    /\ args.use_new
    /\ calls' = Append(calls, Call("EdgeTraceSet"))
    /\ \/ /\ saved' = Append(saved, Saved("EdgeTraceSet"))
          /\ idx' = idx + 1
          /\ pc' = "build"
          /\ UNCHANGED <<error, ret>>
       \/ /\ Raise("EdgeTraceError", "construct")
          /\ UNCHANGED <<saved, idx>>
       \/ /\ Raise("EdgeTraceError", "save")
          /\ UNCHANGED <<saved, idx>>
    /\ UNCHANGED <<env, resolved, master_dir, detectors, master_key, images,
                   scales, runs, swallowed>>

\* lines 119-128: the new tracer; whatever its construction or save() raises
\* is discarded by the bare except and the loop goes on
EdgeTrace ==
    /\ pc = "trace"
    /\ args.use_new
    /\ calls' = Append(calls, Call("EdgeTraceSet"))
    /\ \/ /\ saved' = Append(saved, Saved("EdgeTraceSet"))
          /\ UNCHANGED swallowed
       \/ \* EdgeTraceSet(...) raises
          /\ swallowed' = Append(swallowed, [det |-> det, at |-> "construct"])
          /\ UNCHANGED saved
       \/ \* edges.save() raises
          /\ swallowed' = Append(swallowed, [det |-> det, at |-> "save"])
          /\ UNCHANGED saved
    /\ idx' = idx + 1
    /\ pc' = "build"
    /\ UNCHANGED <<env, resolved, master_dir, detectors, master_key, images,
                   scales, runs, error, ret>>

\* the run of the legacy tracer in the current pass
Run == [det |-> det, binning |-> Val(binning),
        plate_scale |-> scales[Len(scales)].value]

\* lines 129-135 inside the try of the new path: exceptions are discarded
TraceSlitsRunSwallow ==
    /\ pc = "trace"
    /\ ~args.use_new
    /\ calls' = Append(calls, Call("TraceSlits"))
    /\ \/ /\ runs' = Append(runs, Run)
          /\ saved' = Append(saved, Saved("TraceSlits"))
          /\ UNCHANGED swallowed
       \/ /\ swallowed' = Append(swallowed, [det |-> det, at |-> "construct"])
          /\ UNCHANGED <<runs, saved>>
       \/ /\ swallowed' = Append(swallowed, [det |-> det, at |-> "run"])
          /\ runs' = Append(runs, Run)
          /\ UNCHANGED saved
       \/ /\ swallowed' = Append(swallowed, [det |-> det, at |-> "save"])
          /\ runs' = Append(runs, Run)
          /\ UNCHANGED saved
    /\ idx' = idx + 1
    /\ pc' = "build"
    /\ UNCHANGED <<env, resolved, master_dir, detectors, master_key, images,
                   scales, error, ret>>

\* lines 129-135: the legacy tracer; what its construction, run() or save()
\* raises leaves main
TraceSlitsRun ==
    /\ pc = "trace"
    /\ ~args.use_new
    /\ calls' = Append(calls, Call("TraceSlits"))
    /\ \/ /\ runs' = Append(runs, Run)
          /\ saved' = Append(saved, Saved("TraceSlits"))
          /\ idx' = idx + 1
          /\ pc' = "build"
          /\ UNCHANGED <<error, ret>>
       \/ \* TraceSlits(...) raises
          /\ Raise("TraceSlitsError", "construct")
          /\ UNCHANGED <<runs, saved, idx>>
       \/ \* traceSlits.run() raises
          /\ Raise("TraceSlitsError", "run")
          /\ runs' = Append(runs, Run)
          /\ UNCHANGED <<saved, idx>>
       \/ \* traceSlits.save() raises
          /\ Raise("TraceSlitsError", "save")
          /\ runs' = Append(runs, Run)
          /\ UNCHANGED <<saved, idx>>
    /\ UNCHANGED <<env, resolved, master_dir, detectors, master_key, images,
                   scales, swallowed>>

\* line 137: the loop is over
Return ==
    /\ pc = "build"
    /\ idx > Len(Val(detectors))
    /\ ret' = Some(0)
    /\ pc' = "done"
    /\ UNCHANGED <<env, resolved, loopvars, logs, error>>

Next ==
    \/ ResolvePypeitFile
    \/ ResolveTraceFile
    \/ SelectDetectors
    \/ BuildImage
    \/ PlateScale
    \/ EdgeTrace
    \/ TraceSlitsRun
    \/ Return

Spec == Init /\ [][Next]_vars


\* ------------------------------------------------------------ properties
\* the detectors of the entries of a log, in order
DetsOf(log) == [i \in 1..Len(log) |-> log[i].det]

\* the calibration groups of the metadata table
GroupValues == {fitstbl[i].calib : i \in 1..Len(fitstbl)}

\* the input file given on the command line
InputFile == IF args.pypeit_file # None THEN Val(args.pypeit_file)
             ELSE Val(args.trace_file)

\* the spectrograph identifier is absent or not a valid one
BadSpectrograph ==
    args.spectrograph = None \/ Val(args.spectrograph) \notin valid_spectrographs

\* no detector work has been done
NoDetectorWork ==
    /\ images = <<>> /\ scales = <<>> /\ calls = <<>> /\ runs = <<>>
    /\ saved = <<>> /\ swallowed = <<>>

\* C1: with the new algorithm and all detectors selected, an exception of
\* EdgeTraceSet's construction or save never leaves main, and when main is
\* done it has returned 0, every detector 1..N has been attempted in order,
\* and exactly the detectors whose tracing did not raise are persisted.
C1_NewPathSkipsFailedDetectors ==
    (args.use_new /\ args.detector = None) =>
        /\ error # None => Val(error).at \notin {"construct", "save"}
        /\ pc = "done" =>
              /\ ret = Some(0)
              /\ DetsOf(calls) = [i \in 1..ndet |-> i]
              /\ \A d \in 1..ndet :
                    (\E i \in 1..Len(saved) :
                        saved[i].det = d /\ saved[i].tracer = "EdgeTraceSet")
                    <=> (\A i \in 1..Len(swallowed) : swallowed[i].det # d)

\* main is done after the tracer raised for detector 2 of 3: detectors 1 and
\* 3 are persisted
C1_Witness ==
    /\ pc = "done" /\ args.use_new /\ args.detector = None /\ ndet = 3
    /\ DetsOf(swallowed) = <<2>>
    /\ DetsOf(saved) = <<1, 3>>
    /\ ret = Some(0)

\* C2: with the legacy algorithm no exception is discarded, and when the
\* construction, run or save of TraceSlits raised for the detector at
\* position idx, main has not returned, the detectors before it are the
\* persisted ones, and no trace image was built and no tracer constructed or
\* run for a detector after it.
C2_LegacyFailureAborts ==
    ~args.use_new =>
        /\ swallowed = <<>>
        /\ (error # None /\ Val(error).at \in {"construct", "run", "save"}) =>
              /\ pc = "raised" /\ ret = None
              /\ DetsOf(saved) = SubSeq(Val(detectors), 1, idx - 1)
              /\ DetsOf(images) = SubSeq(Val(detectors), 1, idx)
              /\ DetsOf(calls) = SubSeq(Val(detectors), 1, idx)
              /\ \A i \in 1..Len(runs) :
                    \E k \in 1..idx : runs[i].det = Val(detectors)[k]

\* the legacy tracer's run raised for detector 2 of 3 after detector 1 was
\* persisted
C2_Witness ==
    /\ ~args.use_new /\ args.detector = None /\ ndet = 3
    /\ pc = "raised" /\ error # None /\ Val(error).at = "run"
    /\ idx = 2
    /\ DetsOf(saved) = <<1>>

\* the inputs with which input resolution fails fast
FailFast ==
    \/ ~IsFile(fs, InputFile)
    \/ args.pypeit_file # None /\ args.group # None
          /\ Val(args.group) \notin GroupValues
    \/ args.trace_file # None /\ BadSpectrograph

\* C3: with a missing input file, an explicit group that is not in the
\* metadata table or an unrecognized spectrograph, main raises one of the
\* fail-fast errors in input resolution; and whenever input resolution
\* raised, no trace image has been built, no plate scale computed, no tracer
\* constructed or run, nothing persisted, and main has not returned.
C3_FailFastBeforeDetectorWork ==
    /\ (FailFast /\ pc # "start") =>
          /\ pc = "raised" /\ error # None /\ Val(error).at = "resolve"
          /\ Val(error).type
                \in {"FileNotFoundError", "ValueError", "SpectrographError"}
    /\ (error # None /\ Val(error).at = "resolve") =>
          /\ NoDetectorWork /\ detectors = None /\ ret = None /\ pc = "raised"

\* resolution failed on an explicit group that the table of an existing
\* reduction file does not have
C3_Witness ==
    /\ pc = "raised" /\ error # None /\ Val(error).type = "ValueError"
    /\ args.pypeit_file # None /\ IsFile(fs, InputFile)
    /\ args.group # None /\ Val(args.group) \notin GroupValues
    /\ fitstbl # <<>>

\* C4 as stated: with the new algorithm, once input resolution has succeeded
\* no exception of the work on a detector leaves main.
C4_AllDetectorExceptionsCaught ==
    (args.use_new /\ error # None) => Val(error).at = "resolve"

\* C4 as amended: with the new algorithm, the only exceptions that leave
\* main after input resolution are those of building the trace image and of
\* computing the plate scale, and they end the run without a return value;
\* those of EdgeTraceSet's construction and save are discarded: every tracer
\* call ends persisted or discarded, and when main is done it has returned 0
\* and every selected detector has been attempted.
C4_OnlyTracerExceptionsCaught ==
    args.use_new =>
        /\ error # None => Val(error).at \in {"resolve", "build", "platescale"}
        /\ (error # None /\ Val(error).at \in {"build", "platescale"}) =>
              pc = "raised" /\ ret = None
        /\ pc \in {"build", "done"} => Len(saved) + Len(swallowed) = Len(calls)
        /\ pc = "done" => ret = Some(0) /\ DetsOf(calls) = Val(detectors)

\* main returned 0 although the tracer failed for each of three detectors
C4_Witness ==
    /\ args.use_new /\ pc = "done" /\ ret = Some(0)
    /\ Len(Val(detectors)) = 3
    /\ DetsOf(swallowed) = Val(detectors)
    /\ saved = <<>>

\* C5: with a reduction file and no group argument, the group in use is the
\* minimum of the group values of the table, it is one of them, the
\* membership validation of line 73 does not fail, and the files are the
\* trace frames of that group.
C5_DefaultGroupIsMinimum ==
    (args.pypeit_file # None /\ args.group = None /\ group # None) =>
        /\ Val(group) \in GroupValues
        /\ \A v \in GroupValues : Val(group) <= v
        /\ ~(error # None /\ Val(error).type = "ValueError")
        /\ files # None =>
              Len(Val(files)) = Cardinality({i \in 1..Len(fitstbl) :
                  /\ fitstbl[i].frametype = "trace"
                  /\ \A v \in GroupValues : fitstbl[i].calib <= v})

\* the default group was resolved on a table whose first row is not of the
\* smallest group
C5_Witness ==
    /\ pc = "resolved" /\ args.pypeit_file # None /\ args.group = None
    /\ Len(fitstbl) = 2 /\ fitstbl[1].calib = 2 /\ fitstbl[2].calib = 1
    /\ group = Some(1)

\* a detector number in 0..9 as two digits
TwoDigits(d) == <<"0", Digits[d + 1]>>

\* C6: the master key of every tracer call and of every persisted result is
\* the base, an underscore and the detector zero-padded to two digits; no
\* two tracer calls and no two persisted results of a run share a master
\* key; base "A_1" and detector 3 give "A_1_03".
C6_MasterKeyPerDetector ==
    /\ \A i \in 1..Len(calls) :
          calls[i].master_key
             = Val(master_key_base) \o <<"_">> \o TwoDigits(calls[i].det)
    /\ \A i \in 1..Len(saved) :
          saved[i].master_key
             = Val(master_key_base) \o <<"_">> \o TwoDigits(saved[i].det)
    /\ \A i, j \in 1..Len(calls) :
          i # j => calls[i].master_key # calls[j].master_key
    /\ \A i, j \in 1..Len(saved) :
          i # j => saved[i].master_key # saved[j].master_key
    /\ (master_key # None /\ pc \in {"platescale", "trace"}) =>
          Val(master_key) = Val(master_key_base) \o <<"_">> \o TwoDigits(det)

\* three detectors were persisted for a trace file, the third under "A_1_03"
C6_Witness ==
    /\ pc = "done" /\ Len(saved) = 3
    /\ master_key_base = Some(<<"A", "_", "1">>)
    /\ saved[3].det = 3
    /\ saved[3].master_key = <<"A", "_", "1", "_", "0", "3">>

\* C7: the output root is the redux_path argument made absolute when it is
\* given, else the directory of the reduction file with a reduction file and
\* the current working directory with a trace file.
C7_OutputRoot ==
    redux_path # None =>
        Val(redux_path) =
            IF args.redux_path # None THEN AbsPath(Val(args.redux_path))
            ELSE IF args.pypeit_file # None
                 THEN SplitHead(AbsPath(Val(args.pypeit_file)))
                 ELSE Cwd

\* the tracer and the parameter set that go with the flag
TracerOf(use_new) == IF use_new THEN "EdgeTraceSet" ELSE "TraceSlits"
ParOf(use_new) == IF use_new THEN "slitedges" ELSE "slits"

\* C8: in both input modes the tracing parameters are the set that goes with
\* the flag, every tracer constructed and every result persisted is of the
\* tracer that goes with the flag, and every tracer receives that set.
C8_AlgorithmFixedForRun ==
    /\ trace_par # None => Val(trace_par) = ParOf(args.use_new)
    /\ \A i \in 1..Len(calls) :
          /\ calls[i].tracer = TracerOf(args.use_new)
          /\ calls[i].par = ParOf(args.use_new)
    /\ \A i \in 1..Len(saved) : saved[i].tracer = TracerOf(args.use_new)
    /\ args.use_new => runs = <<>>

\* the new tracer was constructed for two detectors of a reduction file
C8_Witness ==
    /\ args.use_new /\ args.pypeit_file # None
    /\ Len(calls) >= 2
    /\ calls[2].tracer = "EdgeTraceSet" /\ calls[2].par = "slitedges"

\* C9 as stated: with a trace file that does not exist, the run fails with
\* the missing-file error whatever the spectrograph identifier is.
C9_MissingFileCheckedFirst ==
    (args.trace_file # None /\ ~IsFile(fs, InputFile) /\ pc # "start") =>
        error # None /\ Val(error).type = "FileNotFoundError"

\* C9 as amended: with a trace file, the spectrograph is resolved first: an
\* absent or unrecognized identifier fails with the spectrograph error
\* whether or not the file exists, and a missing file fails with the
\* missing-file error when the identifier is valid; both before any detector
\* work.
C9_SpectrographResolvedFirst ==
    (args.trace_file # None /\ pc # "start") =>
        /\ BadSpectrograph =>
              error # None /\ Val(error).type = "SpectrographError"
        /\ (~BadSpectrograph /\ ~IsFile(fs, InputFile)) =>
              error # None /\ Val(error).type = "FileNotFoundError"
        /\ (BadSpectrograph \/ ~IsFile(fs, InputFile)) =>
              pc = "raised" /\ NoDetectorWork

\* a missing trace file was reported for a valid spectrograph
C9_Witness ==
    /\ args.trace_file # None /\ ~IsFile(fs, InputFile) /\ ~BadSpectrograph
    /\ pc = "raised" /\ error # None /\ Val(error).type = "FileNotFoundError"

\* C10: every detector for which a trace image is built, a plate scale
\* computed, a tracer constructed or run, or a result persisted is in 1..N,
\* and the plate scale of a detector is read from that detector.
C10_DetectorsInRange ==
    /\ \A i \in 1..Len(images) : images[i].det \in 1..ndet
    /\ \A i \in 1..Len(scales) :
          scales[i].det \in 1..ndet /\ scales[i].index = scales[i].det
    /\ \A i \in 1..Len(calls) : calls[i].det \in 1..ndet
    /\ \A i \in 1..Len(runs) : runs[i].det \in 1..ndet
    /\ \A i \in 1..Len(saved) : saved[i].det \in 1..ndet

====
